---- MODULE Spec2Model ----
(***************************************************************************)
(* SSTable builder and reader of mykv: the on-disk layout (data blocks,    *)
(* index block, footer), the block splitting of SSTableBuilder::Add, and   *)
(* the two-level lookup of SSTableReader::Get.  Files, buffers, keys and   *)
(* values are sequences of bytes (0..255); fixed-width integers are laid   *)
(* out in little-endian order, as memcpy does on the reference build.      *)
(***************************************************************************)
EXTENDS Integers, Sequences, FiniteSets, TLC

VARIABLES
    fileExists,              \* the path names a file on disk
    file,                    \* the bytes of that file
    b_alive,                 \* the SSTableBuilder object has not been destroyed
    ofs_,                    \* std::ofstream: [open, fail]
    finished_,
    cur_data_block_,
    last_key_in_block_,
    cur_data_block_offset_,
    index_data_,             \* the builder's std::map<key, BlockHandle>
    r_alive,                 \* an SSTableReader has been constructed
    ifs_,                    \* std::ifstream: [open, fail]
    is_valid_,
    footer_,                 \* the reader's Footer::index_block_handle_
    r_index_data_,           \* the reader's std::map<key, BlockHandle>
    damaged,                 \* number of times the file was damaged from outside
    accepted,                \* the (key, value) pairs whose Add returned true, in order
    flushed,                 \* the handles of the data blocks handed to ofs_.write, in order
    op,                      \* the last call: its name, arguments, result and I/O
    reader2,                 \* a second SSTableReader on the same path, and its last Get
    codec                    \* a record buffer, the view readKV is given, and its result

vars == <<fileExists, file, b_alive, ofs_, finished_, cur_data_block_,
          last_key_in_block_, cur_data_block_offset_, index_data_, r_alive, ifs_,
          is_valid_, footer_, r_index_data_, damaged, accepted, flushed, op,
          reader2, codec>>

builderVars == <<b_alive, ofs_, finished_, cur_data_block_, last_key_in_block_,
                 cur_data_block_offset_, index_data_>>

readerVars == <<r_alive, ifs_, is_valid_, footer_, r_index_data_>>

\* What the calls on the builder and on the first reader leave alone.
otherVars == <<reader2, codec>>

----------------------------------------------------------------------------
(* Bounds of the model *)

\* Records one builder accepts.
MaxAdds == 3
\* Times the finished file is damaged from outside before a reader opens it.
MaxDamage == 1

----------------------------------------------------------------------------
(* Program constants *)

DATA_BLOCK_SIZE_THRESHOLD == 128
BLOCK_HANDLE_SIZE == 12
FOOTER_SIZE == 20
\* sizeof(uint32_t), sizeof(uint64_t)
SizeofU32 == 4
SizeofU64 == 8
\* 0xDEADBEEFCAFEF00D as memcpy lays it out (least significant byte first)
SSTABLE_MAGIC_NUMBER == <<13, 240, 254, 202, 239, 190, 173, 222>>

\* Every file of the model is far shorter than Huge bytes: an offset or a
\* size of Huge or more lies beyond the end of every file, and is kept as Huge.
Huge == 256 * 256 * 256
\* static_cast<uint64_t>(-1), the value of a failed tellp(); and, on decoding,
\* every 64-bit value with its top bit set (a negative stream offset).
NegOff == -1

Min(a, b) == IF a < b THEN a ELSE b
Max(a, b) == IF a > b THEN a ELSE b

Fill(n, b) == [i \in 1..n |-> b]

Drop(s, n) == SubSeq(s, n + 1, Len(s))
Take(s, n) == SubSeq(s, 1, n)

----------------------------------------------------------------------------
(* Inputs *)

Keys == {<<>>, <<1>>, <<1, 1>>, <<2>>}
\* A short value, a value that fills half a block, and a value longer than a
\* block whose last 20 bytes read as a footer (an index handle of offset 0 and
\* size 0, then the magic constant).
Values == {<<7>>, Fill(55, 9),
           Fill(101, 9) \o Fill(BLOCK_HANDLE_SIZE, 0) \o SSTABLE_MAGIC_NUMBER}

\* A write fault: the bytes of the failing write that still reach the file.
Cuts == {0, 10}
NoFault == [at |-> 0, cut |-> 0]
Faults == {NoFault} \cup [at : 1..3, cut : Cuts]

----------------------------------------------------------------------------
(* Binary codec *)

\* The w bytes of the unsigned integer n, least significant first.
EncodeFixed(n, w) ==
    IF n < 0 THEN Fill(w, 255)
    ELSE [i \in 1..w |-> IF i <= 3 THEN (n \div (256 ^ (i - 1))) % 256
                         ELSE IF i = 4 THEN n \div (256 ^ 3)
                         ELSE 0]

\* The unsigned integer held in the bytes b, least significant first.
DecodeFixed(b) ==
    LET w == Len(b)
        high == {i \in 4..w : b[i] # 0}
    IN  IF w = SizeofU64 /\ b[w] >= 128 THEN NegOff
        ELSE IF high # {} THEN Huge
        ELSE b[1] + 256 * b[2] + 65536 * b[3]

\* std::string_view operator< : lexicographic on unsigned bytes.
RECURSIVE StrLess(_, _)
StrLess(a, b) ==
    IF b = <<>> THEN FALSE
    ELSE IF a = <<>> THEN TRUE
    ELSE IF a[1] # b[1] THEN a[1] < b[1]
    ELSE StrLess(Tail(a), Tail(b))

StrLeq(a, b) == a = b \/ StrLess(a, b)

BlockHandle(offset, size) == [offset_ |-> offset, size_ |-> size]

BlockHandle_EncodeTo(h) ==
    EncodeFixed(h.offset_, SizeofU64) \o EncodeFixed(h.size_, SizeofU32)

BlockHandle_DecodeFrom(input) ==
    IF Len(input) < SizeofU64 + SizeofU32
    THEN [ok |-> FALSE, handle |-> BlockHandle(0, 0), rest |-> input]
    ELSE [ok |-> TRUE,
          handle |-> BlockHandle(DecodeFixed(Take(input, SizeofU64)),
                                 DecodeFixed(SubSeq(input, SizeofU64 + 1,
                                                    SizeofU64 + SizeofU32))),
          rest |-> Drop(input, SizeofU64 + SizeofU32)]

Footer_EncodeTo(h, magic) == BlockHandle_EncodeTo(h) \o magic

\* Footer::DecodeFrom that never compares the magic number.
Footer_DecodeFrom_NoMagicCheck(input) ==
    IF Len(input) < BLOCK_HANDLE_SIZE + SizeofU64
    THEN [ok |-> FALSE, handle |-> BlockHandle(0, 0)]
    ELSE LET d == BlockHandle_DecodeFrom(Take(input, BLOCK_HANDLE_SIZE))
         IN  [ok |-> d.ok, handle |-> d.handle]

Footer_DecodeFrom(input) ==
    IF Len(input) < BLOCK_HANDLE_SIZE + SizeofU64
    THEN [ok |-> FALSE, handle |-> BlockHandle(0, 0)]
    ELSE IF SubSeq(input, BLOCK_HANDLE_SIZE + 1, BLOCK_HANDLE_SIZE + SizeofU64)
              # SSTABLE_MAGIC_NUMBER
    THEN [ok |-> FALSE, handle |-> BlockHandle(0, 0)]
    ELSE LET d == BlockHandle_DecodeFrom(Take(input, BLOCK_HANDLE_SIZE))
         IN  [ok |-> d.ok, handle |-> d.handle]

writeKV(buffer, key, value) ==
    buffer \o EncodeFixed(Len(key), SizeofU32) \o key
           \o EncodeFixed(Len(value), SizeofU32) \o value

getEntrySize(key, value) == SizeofU32 + Len(key) + SizeofU32 + Len(value)

KVFail(input) == [ok |-> FALSE, key |-> <<>>, value |-> <<>>, rest |-> input]

\* readKV that does not compare value_len with the bytes left in the view.
readKV_NoValueBound(input) ==
    IF Len(input) < SizeofU32 THEN KVFail(input)
    ELSE
    LET key_len == DecodeFixed(Take(input, SizeofU32))
        in1 == Drop(input, SizeofU32)
    IN  IF Len(in1) < key_len THEN KVFail(in1)
        ELSE
        LET key == Take(in1, key_len)
            in2 == Drop(in1, key_len)
        IN  IF Len(in2) < SizeofU32 THEN KVFail(in2)
            ELSE
            LET value_len == DecodeFixed(Take(in2, SizeofU32))
                in3 == Drop(in2, SizeofU32)
                n == Min(value_len, Len(in3))
            IN  [ok |-> TRUE, key |-> key, value |-> Take(in3, n),
                 rest |-> Drop(in3, n)]

readKV(input) ==
    IF Len(input) < SizeofU32 THEN KVFail(input)
    ELSE
    LET key_len == DecodeFixed(Take(input, SizeofU32))
        in1 == Drop(input, SizeofU32)
    IN  IF Len(in1) < key_len THEN KVFail(in1)
        ELSE
        LET key == Take(in1, key_len)
            in2 == Drop(in1, key_len)
        IN  IF Len(in2) < SizeofU32 THEN KVFail(in2)
            ELSE
            LET value_len == DecodeFixed(Take(in2, SizeofU32))
                in3 == Drop(in2, SizeofU32)
            IN  IF Len(in3) < value_len THEN KVFail(in3)
                ELSE [ok |-> TRUE, key |-> key, value |-> Take(in3, value_len),
                      rest |-> Drop(in3, value_len)]

----------------------------------------------------------------------------
(* std::ofstream, as the builder uses it.  A stream is [file, fail, writes]: *)
(* the bytes on disk, its failbit/badbit, and the writes that reached the    *)
(* file.                                                                      *)

\* ofs_.write(data, n) with cut < 0: all of data reaches the file.  With
\* cut >= 0 the write is short: a prefix reaches the file and badbit is set.
\* On a stream that already failed, write does nothing.
ofs_write(s, data, cut) ==
    IF s.fail THEN s
    ELSE IF cut >= 0 /\ Len(data) > 0
    THEN [file |-> s.file \o Take(data, Min(cut, Len(data) - 1)),
          fail |-> TRUE, writes |-> s.writes + 1]
    ELSE [file |-> s.file \o data, fail |-> FALSE, writes |-> s.writes + 1]

\* static_cast<uint64_t>(ofs_.tellp())
ofs_tellp(s) == IF s.fail THEN NegOff ELSE Len(s.file)

\* index_data_[key] = handle
MapPut(m, key, handle) ==
    [k \in (DOMAIN m) \cup {key} |-> IF k = key THEN handle ELSE m[k]]

EmptyMap == [k \in {} |-> BlockHandle(0, 0)]

\* The keys of a std::map in iteration (ascending) order.
RECURSIVE SortedKeys(_)
SortedKeys(S) ==
    IF S = {} THEN <<>>
    ELSE LET m == CHOOSE k \in S : \A j \in S : StrLeq(k, j)
         IN  <<m>> \o SortedKeys(S \ {m})

----------------------------------------------------------------------------
(* SSTableBuilder.  The private state is gathered in a record              *)
(* [s, cur, last, off, index, flushed] while a call runs: s is the stream, *)
(* flushed the blocks handed to ofs_.write so far.                          *)

BuilderState ==
    [s |-> [file |-> file, fail |-> ofs_.fail, writes |-> 0],
     cur |-> cur_data_block_, last |-> last_key_in_block_,
     off |-> cur_data_block_offset_, index |-> index_data_, flushed |-> flushed]

FlushDataBlock(b, cut) ==
    IF b.cur = <<>> THEN b
    ELSE [b EXCEPT
            !.s = ofs_write(b.s, b.cur, cut),
            !.index = MapPut(b.index, b.last, BlockHandle(b.off, Len(b.cur))),
            !.flushed = Append(b.flushed, [key |-> b.last, offset_ |-> b.off,
                                           size_ |-> Len(b.cur), data |-> b.cur]),
            !.cur = <<>>]

\* Add that keeps the old offset tag after it flushed a full block.
AddSplit_StaleOffset(b, entry_size, cut) ==
    IF b.cur = <<>> THEN [b EXCEPT !.off = ofs_tellp(b.s)]
    ELSE IF Len(b.cur) + entry_size > DATA_BLOCK_SIZE_THRESHOLD
    THEN FlushDataBlock(b, cut)
    ELSE b

\* Add that flushes a block as soon as a record would fill it to the
\* threshold.
AddSplit_FlushAtThreshold(b, entry_size, cut) ==
    IF b.cur = <<>> THEN [b EXCEPT !.off = ofs_tellp(b.s)]
    ELSE IF Len(b.cur) + entry_size >= DATA_BLOCK_SIZE_THRESHOLD
    THEN LET f == FlushDataBlock(b, cut) IN [f EXCEPT !.off = ofs_tellp(f.s)]
    ELSE b

\* Add that compares the buffer alone, without the new record, with the
\* threshold.
AddSplit_BufferOnly(b, entry_size, cut) ==
    IF b.cur = <<>> THEN [b EXCEPT !.off = ofs_tellp(b.s)]
    ELSE IF Len(b.cur) > DATA_BLOCK_SIZE_THRESHOLD
    THEN LET f == FlushDataBlock(b, cut) IN [f EXCEPT !.off = ofs_tellp(f.s)]
    ELSE b

\* Step 2 of Add: tag the offset of a new block, or flush a full one first.
AddSplit(b, entry_size, cut) ==
    IF b.cur = <<>> THEN [b EXCEPT !.off = ofs_tellp(b.s)]
    ELSE IF Len(b.cur) + entry_size > DATA_BLOCK_SIZE_THRESHOLD
    THEN LET f == FlushDataBlock(b, cut) IN [f EXCEPT !.off = ofs_tellp(f.s)]
    ELSE b

\* The state check without its finished_ test, and without its stream test.
Rejects_OnlyStream == ofs_.fail
Rejects_OnlyFinished == finished_

\* The state check at the head of Add and of Finish.
Rejects == finished_ \/ ofs_.fail

\* The ascending-key check of Add.
OrderViolation(key) ==
    /\ last_key_in_block_ # <<>>
    /\ cur_data_block_ = <<>>
    /\ StrLeq(key, last_key_in_block_)

OpRec(name, key, value, ret, writes, reads) ==
    [name |-> name, key |-> key, value |-> value, ret |-> ret,
     writes |-> writes, reads |-> reads]

StoreBuilder(b) ==
    /\ file' = b.s.file
    /\ cur_data_block_' = b.cur
    /\ last_key_in_block_' = b.last
    /\ cur_data_block_offset_' = b.off
    /\ index_data_' = b.index
    /\ flushed' = b.flushed

\* Add that appends the record first and flushes the block when the record
\* filled it, so that a full block is written by the Add that completed it.
Add_FlushAfterAppend(key, value, cut) ==
    /\ b_alive
    /\ Len(accepted) < MaxAdds \/ Rejects
    /\ IF Rejects \/ OrderViolation(key)
       THEN /\ op' = OpRec("Add", <<>>, <<>>, FALSE, 0, <<>>)
            /\ UNCHANGED <<fileExists, file, builderVars, readerVars, damaged,
                           accepted, flushed, otherVars>>
       ELSE LET b0 == BuilderState
                b1 == IF b0.cur = <<>> THEN [b0 EXCEPT !.off = ofs_tellp(b0.s)]
                      ELSE b0
                b2 == [b1 EXCEPT !.cur = writeKV(b1.cur, key, value), !.last = key]
                b3 == IF Len(b2.cur) >= DATA_BLOCK_SIZE_THRESHOLD
                      THEN FlushDataBlock(b2, cut)
                      ELSE b2
            IN  /\ StoreBuilder(b3)
                /\ ofs_' = [ofs_ EXCEPT !.fail = b3.s.fail]
                /\ accepted' = Append(accepted, <<key, value>>)
                /\ op' = OpRec("Add", <<>>, <<>>, TRUE, b3.s.writes, <<>>)
                /\ UNCHANGED <<fileExists, b_alive, finished_, readerVars, damaged,
                               otherVars>>

Add(key, value, cut) ==
    /\ b_alive
    /\ Len(accepted) < MaxAdds \/ Rejects
    /\ IF Rejects \/ OrderViolation(key)
       THEN /\ op' = OpRec("Add", <<>>, <<>>, FALSE, 0, <<>>)
            /\ UNCHANGED <<fileExists, file, builderVars, readerVars, damaged,
                           accepted, flushed, otherVars>>
       ELSE LET b1 == AddSplit(BuilderState, getEntrySize(key, value), cut)
                b2 == [b1 EXCEPT !.cur = writeKV(b1.cur, key, value), !.last = key]
            IN  /\ StoreBuilder(b2)
                /\ ofs_' = [ofs_ EXCEPT !.fail = b2.s.fail]
                /\ accepted' = Append(accepted, <<key, value>>)
                /\ op' = OpRec("Add", <<>>, <<>>, TRUE, b2.s.writes, <<>>)
                /\ UNCHANGED <<fileExists, b_alive, finished_, readerVars, damaged,
                               otherVars>>

RECURSIVE EncodeIndex(_, _)
\* The loop of Finish over index_data_, in key order.
EncodeIndex(index, keys) ==
    IF keys = <<>> THEN <<>>
    ELSE writeKV(<<>>, Head(keys), BlockHandle_EncodeTo(index[Head(keys)]))
         \o EncodeIndex(index, Tail(keys))

CutAt(f, i) == IF f.at = i THEN f.cut ELSE -1

\* The writes of Finish: the last data block, the index block, the footer.
FinishWrites(b, f) ==
    LET b1 == FlushDataBlock(b, CutAt(f, 1))
        index_block_offset == ofs_tellp(b1.s)
        index_block_buffer == EncodeIndex(b1.index, SortedKeys(DOMAIN b1.index))
        s2 == ofs_write(b1.s, index_block_buffer, CutAt(f, 2))
        footer_encoded ==
            Footer_EncodeTo(BlockHandle(index_block_offset, Len(index_block_buffer)),
                            SSTABLE_MAGIC_NUMBER)
        s3 == ofs_write(s2, Take(footer_encoded, FOOTER_SIZE), CutAt(f, 3))
    IN  [b1 EXCEPT !.s = s3]

\* What Finish returns once past its state check.
FinishResult(b) == TRUE

Finish(f) ==
    /\ b_alive
    /\ IF Rejects
       THEN /\ op' = OpRec("Finish", <<>>, <<>>, FALSE, 0, <<>>)
            /\ UNCHANGED <<fileExists, file, builderVars, readerVars, damaged,
                           accepted, flushed, otherVars>>
       ELSE LET b == FinishWrites(BuilderState, f)
            IN  /\ StoreBuilder(b)
                /\ finished_' = TRUE
                /\ ofs_' = [open |-> FALSE, fail |-> b.s.fail]
                /\ op' = OpRec("Finish", <<>>, <<>>, FinishResult(b), b.s.writes, <<>>)
                /\ UNCHANGED <<fileExists, b_alive, readerVars, damaged, accepted,
                               otherVars>>

\* ~SSTableBuilder
DestroyBuilder ==
    /\ b_alive
    /\ b_alive' = FALSE
    /\ ofs_' = [ofs_ EXCEPT !.open = FALSE]
    /\ op' = OpRec("~SSTableBuilder", <<>>, <<>>, TRUE, 0, <<>>)
    /\ UNCHANGED <<fileExists, file, finished_, cur_data_block_, last_key_in_block_,
                   cur_data_block_offset_, index_data_, readerVars, damaged,
                   accepted, flushed, otherVars>>

----------------------------------------------------------------------------
(* SSTableReader.  While a call runs the stream is [fail, reads]: its       *)
(* failbit, and the handles ReadDataBlock was asked to read.                 *)

\* ReadDataBlock: seekg(offset_), read(size_), and the gcount() test.  A
\* stream whose failbit is set neither seeks nor reads (gcount() is 0); a
\* short read sets eofbit and failbit.
ReadDataBlock(bytes, s, handle) ==
    LET seekFails == handle.offset_ = NegOff
        avail == IF s.fail \/ seekFails THEN 0
                 ELSE Max(0, Len(bytes) - handle.offset_)
        gcount == Min(handle.size_, avail)
    IN  [ok |-> gcount = handle.size_,
         content |-> SubSeq(bytes, handle.offset_ + 1, handle.offset_ + gcount),
         s |-> [fail |-> s.fail \/ seekFails \/ gcount < handle.size_,
                reads |-> Append(s.reads, handle)]]

RECURSIVE ParseIndex(_, _)
\* Step 4 of LoadIndex: the index block's records into the map.
ParseIndex(input, index) ==
    IF input = <<>> THEN [ok |-> TRUE, index |-> index]
    ELSE LET kv == readKV(input)
         IN  IF ~kv.ok THEN [ok |-> FALSE, index |-> index]
             ELSE LET h == BlockHandle_DecodeFrom(kv.value)
                  IN  IF ~h.ok THEN [ok |-> FALSE, index |-> index]
                      ELSE ParseIndex(kv.rest, MapPut(index, kv.key, h.handle))

LoadFail(footer, index, s) ==
    [ok |-> FALSE, footer |-> footer, index |-> index, s |-> s]

LoadIndex(bytes) ==
    LET s0 == [fail |-> FALSE, reads |-> <<>>]
        file_size == Len(bytes)
    IN  IF file_size < FOOTER_SIZE THEN LoadFail(BlockHandle(0, 0), EmptyMap, s0)
        ELSE
        LET footer_buf == SubSeq(bytes, file_size - FOOTER_SIZE + 1, file_size)
            ft == Footer_DecodeFrom(footer_buf)
        IN  IF ~ft.ok THEN LoadFail(ft.handle, EmptyMap, s0)
            ELSE
            LET blk == ReadDataBlock(bytes, s0, ft.handle)
            IN  IF ~blk.ok THEN LoadFail(ft.handle, EmptyMap, blk.s)
                ELSE LET parsed == ParseIndex(blk.content, EmptyMap)
                     IN  [ok |-> parsed.ok, footer |-> ft.handle,
                          index |-> parsed.index, s |-> blk.s]

\* SSTableReader::SSTableReader
OpenReader ==
    /\ ~r_alive
    /\ ~b_alive
    /\ r_alive' = TRUE
    /\ IF ~fileExists
       THEN /\ ifs_' = [open |-> FALSE, fail |-> TRUE]
            /\ is_valid_' = FALSE
            /\ UNCHANGED <<footer_, r_index_data_>>
            /\ op' = OpRec("SSTableReader", <<>>, <<>>, FALSE, 0, <<>>)
       ELSE LET l == LoadIndex(file)
            IN  /\ ifs_' = [open |-> l.ok, fail |-> l.s.fail]
                /\ is_valid_' = l.ok
                /\ footer_' = l.footer
                /\ r_index_data_' = l.index
                /\ op' = OpRec("SSTableReader", <<>>, <<>>, l.ok, 0, l.s.reads)
    /\ UNCHANGED <<fileExists, file, builderVars, damaged, accepted, flushed,
                   otherVars>>

RECURSIVE FindInBlock_MatchesGreater(_, _)
\* FindInBlock that takes the first record whose key is not less than the
\* key asked for as a match.
FindInBlock_MatchesGreater(input, key) ==
    IF input = <<>> THEN [found |-> FALSE, value |-> <<>>]
    ELSE LET kv == readKV(input)
         IN  IF ~kv.ok THEN [found |-> FALSE, value |-> <<>>]
             ELSE IF ~StrLess(kv.key, key) THEN [found |-> TRUE, value |-> kv.value]
             ELSE FindInBlock_MatchesGreater(kv.rest, key)

RECURSIVE FindInBlock(_, _)
FindInBlock(input, key) ==
    IF input = <<>> THEN [found |-> FALSE, value |-> <<>>]
    ELSE LET kv == readKV(input)
         IN  IF ~kv.ok THEN [found |-> FALSE, value |-> <<>>]
             ELSE IF kv.key = key THEN [found |-> TRUE, value |-> kv.value]
             ELSE IF StrLess(key, kv.key) THEN [found |-> FALSE, value |-> <<>>]
             ELSE FindInBlock(kv.rest, key)

\* upper_bound in place of lower_bound: the keys greater than key.
LowerBound_Strict(index, key) == {k \in DOMAIN index : StrLess(key, k)}

\* index_data_.lower_bound(key): the keys not less than key.
LowerBound(index, key) == {k \in DOMAIN index : ~StrLess(k, key)}

GetMiss(s) == [found |-> FALSE, value |-> <<>>, s |-> s]

\* Steps 1 to 4 of Get: the index lookup, the block read, the block scan.
GetLookup(bytes, index, fail, key) ==
    LET s0 == [fail |-> fail, reads |-> <<>>]
        cands == LowerBound(index, key)
    IN  IF cands = {} THEN GetMiss(s0)
        ELSE LET it == CHOOSE k \in cands : \A j \in cands : StrLeq(k, j)
                 blk == ReadDataBlock(bytes, s0, index[it])
             IN  IF ~blk.ok THEN GetMiss(blk.s)
                 ELSE LET r == FindInBlock(blk.content, key)
                      IN  [found |-> r.found, value |-> r.value, s |-> blk.s]

\* Get that does not test is_valid_.
Get_NoValidCheck(bytes, valid, index, fail, key) ==
    GetLookup(bytes, index, fail, key)

\* SSTableReader::Get on the reader [valid, index, fail] over the file bytes.
Get(bytes, valid, index, fail, key) ==
    IF ~valid THEN GetMiss([fail |-> fail, reads |-> <<>>])
    ELSE GetLookup(bytes, index, fail, key)

\* Get that marks the reader invalid when it does not find the key.
GetCall_InvalidatesOnMiss(key) ==
    /\ r_alive
    /\ LET g == Get(file, is_valid_, r_index_data_, ifs_.fail, key)
       IN  /\ ifs_' = [ifs_ EXCEPT !.fail = g.s.fail]
           /\ is_valid_' = (is_valid_ /\ g.found)
           /\ op' = OpRec("Get", key, g.value, g.found, 0, g.s.reads)
    /\ UNCHANGED <<fileExists, file, builderVars, r_alive, footer_,
                   r_index_data_, damaged, accepted, flushed, otherVars>>

GetCall(key) ==
    /\ r_alive
    /\ LET g == Get(file, is_valid_, r_index_data_, ifs_.fail, key)
       IN  /\ ifs_' = [ifs_ EXCEPT !.fail = g.s.fail]
           /\ op' = OpRec("Get", key, g.value, g.found, 0, g.s.reads)
    /\ UNCHANGED <<fileExists, file, builderVars, r_alive, is_valid_, footer_,
                   r_index_data_, damaged, accepted, flushed, otherVars>>

----------------------------------------------------------------------------
(* A second SSTableReader, constructed on the same path while the first is  *)
(* alive.  It owns its stream, its validity flag and its copy of the index. *)

NoGet == [asked |-> FALSE, key |-> <<>>, ret |-> FALSE, value |-> <<>>]

NoReader2 ==
    [alive |-> FALSE, ifs_ |-> [open |-> FALSE, fail |-> FALSE],
     is_valid_ |-> FALSE, index_data_ |-> EmptyMap, got |-> NoGet]

\* SSTableReader::SSTableReader, for the second reader, on a table whose
\* builder has finished and gone.
OpenReader2 ==
    /\ r_alive
    /\ finished_
    /\ ~reader2.alive
    /\ LET l == LoadIndex(file)
       IN  reader2' = [alive |-> TRUE,
                       ifs_ |-> [open |-> l.ok, fail |-> l.s.fail],
                       is_valid_ |-> l.ok, index_data_ |-> l.index, got |-> NoGet]
    /\ UNCHANGED <<fileExists, file, builderVars, readerVars, damaged, accepted,
                   flushed, op, codec>>

\* SSTableReader::Get on the second reader.
GetCall2(key) ==
    /\ reader2.alive
    /\ LET g == Get(file, reader2.is_valid_, reader2.index_data_,
                    reader2.ifs_.fail, key)
       IN  reader2' = [reader2 EXCEPT
                          !.ifs_.fail = g.s.fail,
                          !.got = [asked |-> TRUE, key |-> key, ret |-> g.found,
                                   value |-> g.value]]
    /\ UNCHANGED <<fileExists, file, builderVars, readerVars, damaged, accepted,
                   flushed, op, codec>>

----------------------------------------------------------------------------
(* Damage from outside the program to a file that Finish wrote in full,     *)
(* before it is read.                                                       *)

CanDamage ==
    /\ finished_
    /\ ~ofs_.fail
    /\ ~b_alive
    /\ ~r_alive
    /\ damaged < MaxDamage

RECURSIVE SumSizes(_, _)
\* The sizes of the first n data blocks written, added up.
SumSizes(blocks, n) == IF n = 0 THEN 0 ELSE SumSizes(blocks, n - 1) + blocks[n].size_

\* A damaged byte: all its bits flipped (mask 255) or its lowest bit (mask 1).
FlipByte(b, mask) == IF mask = 255 THEN 255 - b
                     ELSE IF b % 2 = 0 THEN b + 1 ELSE b - 1

Masks == {1, 255}

\* Byte i of the footer (1..12 the index handle, 13..20 the magic) is changed.
CorruptFooter(i, mask) ==
    /\ CanDamage
    /\ Len(file) >= FOOTER_SIZE
    /\ LET pos == Len(file) - FOOTER_SIZE + i
       IN  file' = [file EXCEPT ![pos] = FlipByte(file[pos], mask)]
    /\ damaged' = damaged + 1
    /\ op' = OpRec("CorruptFooter", <<>>, <<>>, TRUE, 0, <<>>)
    /\ UNCHANGED <<fileExists, builderVars, readerVars, accepted, flushed,
                   otherVars>>

Truncate(n) ==
    /\ CanDamage
    /\ n < Len(file)
    /\ file' = Take(file, n)
    /\ damaged' = damaged + 1
    /\ op' = OpRec("Truncate", <<>>, <<>>, TRUE, 0, <<>>)
    /\ UNCHANGED <<fileExists, builderVars, readerVars, accepted, flushed,
                   otherVars>>

TruncateLengths == {0, FOOTER_SIZE - 1, Len(file) - 1}

RECURSIVE HandleBytes(_, _)
\* The file positions of the low byte of offset_ and of the low byte of size_
\* of every handle in the index block input, which starts at file offset at.
HandleBytes(input, at) ==
    IF input = <<>> THEN {}
    ELSE LET kv == readKV(input)
             handle_at == at + SizeofU32 + Len(kv.key) + SizeofU32
         IN  IF ~kv.ok THEN {}
             ELSE {handle_at + 1, handle_at + SizeofU64 + 1}
                  \cup HandleBytes(kv.rest, at + Len(input) - Len(kv.rest))

\* The low byte of key_len and of value_len of the first record of the file.
LengthBytes ==
    IF flushed = <<>> THEN {}
    ELSE LET kv == readKV(file)
         IN  {1, SizeofU32 + Len(kv.key) + 1}

\* The bytes before the footer that may be damaged: length fields of the
\* first record, and offset and size fields of the index entries.
BodyPositions ==
    LET indexSize == Len(file) - FOOTER_SIZE - SumSizes(flushed, Len(flushed))
        indexAt == SumSizes(flushed, Len(flushed))
    IN  LengthBytes \cup HandleBytes(SubSeq(file, indexAt + 1, indexAt + indexSize),
                                     indexAt)

\* Byte pos of a data block or of the index block is changed.
CorruptBody(pos, mask) ==
    /\ CanDamage
    /\ pos \in BodyPositions
    /\ file' = [file EXCEPT ![pos] = FlipByte(file[pos], mask)]
    /\ damaged' = damaged + 1
    /\ op' = OpRec("CorruptBody", <<>>, <<>>, TRUE, 0, <<>>)
    /\ UNCHANGED <<fileExists, builderVars, readerVars, accepted, flushed,
                   otherVars>>

----------------------------------------------------------------------------
(* The record codec on its own: a record is encoded in front of some        *)
(* trailing bytes, the view over it is possibly cut short, and readKV is     *)
(* applied to the view.                                                      *)

Trailing == {<<>>, <<0>>, <<1, 0, 0>>, writeKV(<<>>, <<2>>, <<7>>)}

CodecIdle ==
    [stage |-> "idle", key |-> <<>>, value |-> <<>>, rest |-> <<>>,
     input |-> <<>>, got |-> KVFail(<<>>)]

\* Where a view over the record (key, value) may end early: inside and at
\* the end of each of its four fields.
CutPoints(key, value) ==
    {n \in {0, SizeofU32 - 1, SizeofU32, SizeofU32 + Len(key) - 1,
            SizeofU32 + Len(key), 2 * SizeofU32 + Len(key) - 1,
            2 * SizeofU32 + Len(key), getEntrySize(key, value) - 1} :
        n >= 0 /\ n < getEntrySize(key, value)}

\* writeKV(&buffer, key, value), then the trailing bytes are appended.
writeKVStep ==
    /\ codec.stage = "start"
    /\ codec' = [codec EXCEPT
                    !.input = writeKV(<<>>, codec.key, codec.value) \o codec.rest,
                    !.stage = "encoded"]
    /\ UNCHANGED <<fileExists, file, builderVars, readerVars, damaged, accepted,
                   flushed, op, reader2>>

\* The view is cut to its first n bytes, n less than the record's size.
Shorten(n) ==
    /\ codec.stage = "encoded"
    /\ n \in CutPoints(codec.key, codec.value)
    /\ codec' = [codec EXCEPT !.input = Take(codec.input, n), !.stage = "cut"]
    /\ UNCHANGED <<fileExists, file, builderVars, readerVars, damaged, accepted,
                   flushed, op, reader2>>

\* readKV(&input, &key, &value)
readKVStep ==
    /\ codec.stage \in {"encoded", "cut"}
    /\ codec' = [codec EXCEPT
                    !.got = readKV(codec.input),
                    !.stage = IF codec.stage = "cut" THEN "decoded cut"
                              ELSE "decoded"]
    /\ UNCHANGED <<fileExists, file, builderVars, readerVars, damaged, accepted,
                   flushed, op, reader2>>

----------------------------------------------------------------------------
(* The program: a builder constructed on a path, its calls, then a reader  *)

\* SSTableBuilder::SSTableBuilder: the path opens (and is truncated) or not.
Constructed ==
    /\ \E opened \in BOOLEAN :
         /\ fileExists = opened
         /\ ofs_ = [open |-> opened, fail |-> ~opened]
    /\ file = <<>>
    /\ b_alive = TRUE
    /\ finished_ = FALSE
    /\ cur_data_block_ = <<>>
    /\ last_key_in_block_ = <<>>
    /\ cur_data_block_offset_ = 0
    /\ index_data_ = EmptyMap
    /\ r_alive = FALSE
    /\ ifs_ = [open |-> FALSE, fail |-> FALSE]
    /\ is_valid_ = FALSE
    /\ footer_ = BlockHandle(0, 0)
    /\ r_index_data_ = EmptyMap
    /\ damaged = 0
    /\ accepted = <<>>
    /\ flushed = <<>>
    /\ op = OpRec("SSTableBuilder", <<>>, <<>>, TRUE, 0, <<>>)
    /\ reader2 = NoReader2

Init ==
    /\ Constructed
    /\ codec = CodecIdle

\* The codec's inputs: a key, a value and the bytes that follow the record.
InitCodec ==
    /\ Constructed
    /\ \E key \in Keys, value \in Values, rest \in Trailing :
          codec = [CodecIdle EXCEPT !.stage = "start", !.key = key,
                                    !.value = value, !.rest = rest]

AddStep == \E key \in Keys, value \in Values, cut \in {-1} \cup Cuts :
               Add(key, value, cut)
FinishStep == \E f \in Faults : Finish(f)
GetStep == \E key \in Keys : GetCall(key)
CorruptStep == \E i \in 1..FOOTER_SIZE, mask \in Masks : CorruptFooter(i, mask)
TruncateStep == \E n \in TruncateLengths : Truncate(n)
CorruptBodyStep == \E pos \in BodyPositions, mask \in Masks : CorruptBody(pos, mask)
GetStep2 == \E key \in Keys : GetCall2(key)
ShortenStep == \E n \in CutPoints(codec.key, codec.value) : Shorten(n)

\* A builder's life, then a reader's, on a file nothing else touches.
Next ==
    \/ AddStep
    \/ FinishStep
    \/ DestroyBuilder
    \/ OpenReader
    \/ GetStep

Spec == Init /\ [][Next]_vars

\* The same, on a file that may be damaged between the builder and the reader.
NextDamage ==
    \/ AddStep
    \/ FinishStep
    \/ DestroyBuilder
    \/ OpenReader
    \/ GetStep
    \/ CorruptStep
    \/ TruncateStep

SpecDamage == Init /\ [][NextDamage]_vars

\* The same, on a file whose data or index bytes may be damaged instead.
NextCorrupt ==
    \/ AddStep
    \/ FinishStep
    \/ DestroyBuilder
    \/ OpenReader
    \/ GetStep
    \/ CorruptBodyStep

SpecCorrupt == Init /\ [][NextCorrupt]_vars

\* A builder's life, then two readers on the file it left.
NextReopen ==
    \/ AddStep
    \/ FinishStep
    \/ DestroyBuilder
    \/ OpenReader
    \/ GetStep
    \/ OpenReader2
    \/ GetStep2

SpecReopen == Init /\ [][NextReopen]_vars

\* The record codec applied to every input of InitCodec.
NextCodec ==
    \/ writeKVStep
    \/ ShortenStep
    \/ readKVStep

SpecCodec == InitCodec /\ [][NextCodec]_vars

----------------------------------------------------------------------------
(* Properties *)

AcceptedKeys == {accepted[i][1] : i \in 1..Len(accepted)}

\* The keys whose Add returned true were strictly ascending.
Ascending ==
    \A i \in 1..Len(accepted) - 1 : StrLess(accepted[i][1], accepted[i + 1][1])

BuilderCalls == {"Add", "Finish"}

\* C1 (round trip): after Adds with strictly ascending keys and a Finish that
\* returned true, a reader opened on the untouched file is valid and Get of
\* every inserted key returns found with the inserted value.
C1_RoundTrip ==
    (r_alive /\ finished_ /\ Ascending /\ damaged = 0)
        => /\ is_valid_
           /\ op.name = "Get" =>
                \A i \in 1..Len(accepted) :
                    accepted[i][1] = op.key => op.ret /\ op.value = accepted[i][2]

\* The round trip of C1 when every write of the builder reached the file.
RoundTripWithoutWriteFault ==
    (r_alive /\ finished_ /\ ~ofs_.fail /\ Ascending /\ damaged = 0)
        => /\ is_valid_
           /\ op.name = "Get" =>
                \A i \in 1..Len(accepted) :
                    accepted[i][1] = op.key => op.ret /\ op.value = accepted[i][2]

\* C2 (negative lookup): on a table built from strictly ascending keys and
\* finished, Get of a key that was never inserted returns not-found.
C2_NegativeLookup ==
    (r_alive /\ finished_ /\ Ascending /\ op.name = "Get"
        /\ op.key \notin AcceptedKeys)
        => ~op.ret

\* A valid reader was asked for a key that was never inserted and lies
\* across a block boundary: above the last key of one data block and below
\* the inserted keys of the next, which it read and scanned in vain.
C2_Witness ==
    /\ r_alive /\ is_valid_ /\ finished_ /\ Ascending /\ damaged = 0
    /\ op.name = "Get" /\ ~op.ret /\ Len(op.reads) = 1
    /\ op.key \notin AcceptedKeys
    /\ \E j \in 1..Len(flushed) - 1 :
          /\ StrLess(flushed[j].key, op.key)
          /\ op.reads[1] = BlockHandle(flushed[j + 1].offset_, flushed[j + 1].size_)
          /\ \E b \in AcceptedKeys : StrLess(op.key, b)

\* C3 (order enforcement): Add of a key that is not strictly greater than
\* every key accepted before returns failure, so the keys whose Add returned
\* true are strictly ascending.
C3_OrderEnforced == Ascending

\* The file ends in the magic constant.
MagicIntact ==
    /\ Len(file) >= FOOTER_SIZE
    /\ SubSeq(file, Len(file) - SizeofU64 + 1, Len(file)) = SSTABLE_MAGIC_NUMBER

\* C4 (format integrity): a reader opened on a file that is shorter than the
\* footer, or whose last 8 bytes are not the magic constant, is invalid and
\* its Get returns not-found.
C4_FormatIntegrity ==
    (r_alive /\ fileExists /\ ~MagicIntact)
        => /\ ~is_valid_
           /\ op.name = "Get" => ~op.ret

\* A table of two data blocks had a byte of its magic region changed, and a
\* reader opened on it was asked for a key the table holds.
C4_Witness ==
    /\ r_alive /\ finished_ /\ damaged = 1 /\ Len(flushed) >= 2
    /\ Len(file) >= FOOTER_SIZE /\ ~MagicIntact
    /\ op.name = "Get" /\ op.key \in AcceptedKeys

\* A finished table was cut below the footer size, and a reader opened on it
\* was asked for a key the table held.
C4_WitnessTruncated ==
    /\ r_alive /\ finished_ /\ damaged = 1 /\ accepted # <<>>
    /\ Len(file) < FOOTER_SIZE
    /\ op.name = "Get" /\ op.key \in AcceptedKeys

\* C5 (finished is terminal): once Finish has returned true the builder stays
\* finished, and every later Add and Finish returns false and changes neither
\* the file nor the builder's index.
C5_FinishedIsTerminal ==
    [][finished_ =>
        /\ finished_'
        /\ op'.name \in BuilderCalls =>
              /\ ~op'.ret
              /\ file' = file
              /\ index_data_' = index_data_
              /\ cur_data_block_' = cur_data_block_]_vars

\* Add was called on a builder whose Finish had returned true after two
\* blocks were written.
C5_Witness ==
    /\ finished_ /\ b_alive /\ Len(flushed) >= 2
    /\ op.name = "Add" /\ ~op.ret

\* C6 (write failure reported): the Add or Finish during which a write to the
\* file fails returns false.
C6_WriteFailureReported ==
    (op.name \in BuilderCalls /\ op.writes > 0 /\ ofs_.fail) => ~op.ret

\* C7 (sticky I/O failure): once the stream of a builder that had opened has
\* failed, the builder is not and does not become finished, and every later
\* Add and Finish returns false and writes nothing.
C7_StickyFailure ==
    [][(fileExists /\ ofs_'.fail) =>
        /\ ~finished_'
        /\ (ofs_.fail /\ op'.name \in BuilderCalls) =>
              /\ ~op'.ret
              /\ op'.writes = 0
              /\ file' = file]_vars

\* The part of C7 about the calls made after the failure.
LaterCallsFailAfterWriteFault ==
    [][(fileExists /\ ofs_.fail /\ op'.name \in BuilderCalls) =>
        /\ ~op'.ret
        /\ op'.writes = 0
        /\ file' = file
        /\ finished_' = finished_]_vars

\* C8 (unusable path): a builder whose file did not open reports is_open()
\* false, and every Add and Finish on it returns false and writes nothing.
C8_UnopenedBuilderRejects ==
    ~fileExists =>
        /\ ~ofs_.open
        /\ file = <<>> /\ accepted = <<>> /\ flushed = <<>> /\ ~finished_
        /\ cur_data_block_ = <<>>
        /\ op.name \in BuilderCalls => ~op.ret /\ op.writes = 0

\* Add was called on a builder whose file did not open.
C8_Witness ==
    /\ ~fileExists /\ b_alive /\ ~ofs_.open
    /\ op.name = "Add" /\ ~op.ret

\* C9 (invalid reader): a reader whose construction failed stays invalid, and
\* every Get on it returns not-found without reading the file.
C9_InvalidReaderIsPermanent ==
    [][(r_alive /\ ~is_valid_) =>
        /\ r_alive' /\ ~is_valid_'
        /\ op'.name = "Get" => ~op'.ret /\ op'.reads = <<>>]_vars

\* Get was called, for a key the table holds, on a reader that failed to load
\* an index block it had begun to parse.
C9_Witness ==
    /\ r_alive /\ ~is_valid_ /\ DOMAIN r_index_data_ # {}
    /\ op.name = "Get" /\ op.key \in DOMAIN r_index_data_

\* Get was called on a reader whose file could not be opened.
C9_WitnessNoFile ==
    /\ r_alive /\ ~is_valid_ /\ ~fileExists
    /\ op.name = "Get"

\* C10 (file layout): after a Finish whose writes all succeeded, the data
\* blocks tile the file from offset 0 in write order, each at the byte range
\* its handle records; the index block starts where the last data block ends;
\* the last 20 bytes are the footer, holding the index block's offset and
\* size and the magic constant; nothing else is in the file.
C10_FileLayout ==
    (finished_ /\ ~ofs_.fail /\ damaged = 0) =>
        LET dataEnd == SumSizes(flushed, Len(flushed))
            indexSize == Len(file) - FOOTER_SIZE - dataEnd
        IN  /\ \A i \in 1..Len(flushed) :
                  /\ flushed[i].offset_ = SumSizes(flushed, i - 1)
                  /\ flushed[i].size_ = Len(flushed[i].data)
                  /\ SubSeq(file, flushed[i].offset_ + 1,
                            flushed[i].offset_ + flushed[i].size_) = flushed[i].data
            /\ indexSize >= 0
            /\ SubSeq(file, dataEnd + 1, dataEnd + indexSize)
                  = EncodeIndex(index_data_, SortedKeys(DOMAIN index_data_))
            /\ SubSeq(file, Len(file) - FOOTER_SIZE + 1, Len(file))
                  = Footer_EncodeTo(BlockHandle(dataEnd, indexSize),
                                    SSTABLE_MAGIC_NUMBER)

\* Finish returned on a table of three data blocks, all writes having
\* succeeded.
C10_Witness ==
    /\ finished_ /\ ~ofs_.fail /\ damaged = 0
    /\ Len(flushed) = 3 /\ op.name = "Finish" /\ op.ret

----------------------------------------------------------------------------
(* Blocks as sequences of records *)

RECURSIVE Records(_)
\* The (key, value) records at the head of a block, up to the first that
\* does not decode.
Records(data) ==
    IF data = <<>> THEN <<>>
    ELSE LET kv == readKV(data)
         IN  IF ~kv.ok THEN <<>>
             ELSE <<(<<kv.key, kv.value>>)>> \o Records(kv.rest)

RECURSIVE EncodeAll(_)
\* The encodings [key_len][key][value_len][value] of records, concatenated.
EncodeAll(recs) ==
    IF recs = <<>> THEN <<>>
    ELSE writeKV(<<>>, Head(recs)[1], Head(recs)[2]) \o EncodeAll(Tail(recs))

RECURSIVE ConcatData(_, _)
\* The bytes of the first n data blocks written, concatenated.
ConcatData(blocks, n) ==
    IF n = 0 THEN <<>> ELSE ConcatData(blocks, n - 1) \o blocks[n].data

IsPrefix(a, b) == Len(a) <= Len(b) /\ Take(b, Len(a)) = a

\* The index has one entry per data block written, in the order of the
\* blocks, each under the last and greatest key of its block.
IndexMatchesBlocks ==
    LET keys == SortedKeys(DOMAIN index_data_)
    IN  /\ Len(keys) = Len(flushed)
        /\ \A i \in 1..Len(flushed) :
              LET recs == Records(flushed[i].data)
              IN  /\ keys[i] = flushed[i].key
                  /\ index_data_[keys[i]]
                        = BlockHandle(flushed[i].offset_, flushed[i].size_)
                  /\ recs # <<>>
                  /\ recs[Len(recs)][1] = flushed[i].key
                  /\ \A j \in 1..Len(recs) : StrLeq(recs[j][1], flushed[i].key)

\* C11 (index entries): after Adds that returned true and a Finish that
\* returned true, the index holds exactly one entry per data block written,
\* in the ascending key order in which the blocks were written, and the key
\* of each entry is the greatest (the last added) key of its block.
C11_IndexPerBlock == finished_ => IndexMatchesBlocks

\* The index entries of C11 when the accepted keys were strictly ascending.
IndexPerBlockWhenAscending == (finished_ /\ Ascending) => IndexMatchesBlocks

\* A table of three data blocks built from ascending keys was finished.
IndexPerBlockWhenAscending_Witness ==
    /\ finished_ /\ Ascending /\ Len(flushed) = 3 /\ ~ofs_.fail

\* C12 (unfinished file): when a builder is destroyed without a Finish having
\* succeeded, its file holds at most the data blocks already flushed, no
\* index block and no footer, and a reader opened on it is invalid.
C12_UnfinishedIsInvalid ==
    (fileExists /\ ~b_alive /\ ~finished_) =>
        /\ IsPrefix(file, ConcatData(flushed, Len(flushed)))
        /\ r_alive => ~is_valid_

\* The part of C12 about the bytes of the file.
UnfinishedFileIsFlushedData ==
    (fileExists /\ ~b_alive /\ ~finished_) =>
        IsPrefix(file, ConcatData(flushed, Len(flushed)))

\* The part of C12 about the reader, for a file that does not end in the
\* magic constant.
UnfinishedIsInvalidWithoutMagic ==
    (fileExists /\ ~b_alive /\ ~finished_ /\ r_alive /\ ~MagicIntact) => ~is_valid_

\* A builder that had flushed a block was destroyed unfinished, and a reader
\* was opened on its file.
UnfinishedIsInvalidWithoutMagic_Witness ==
    /\ fileExists /\ ~b_alive /\ ~finished_ /\ r_alive /\ ~ofs_.fail
    /\ flushed # <<>> /\ ~MagicIntact

\* The byte range a handle names does not lie wholly inside the file.
ReadIsShort(handle) ==
    \/ handle.offset_ = NegOff
    \/ handle.offset_ + handle.size_ > Len(file)

\* The bytes of the file a handle names, as far as the file holds them.
RangeOf(handle) ==
    IF handle.offset_ = NegOff THEN <<>>
    ELSE SubSeq(file, handle.offset_ + 1,
                Min(Len(file), handle.offset_ + handle.size_))

\* The record (key, value) stands whole in content, behind whole records.
WholeRecordIn(content, key, value) ==
    LET enc == writeKV(<<>>, key, value)
    IN  \E n \in 0..Len(content) :
            /\ n + Len(enc) <= Len(content)
            /\ SubSeq(content, n + 1, n + Len(enc)) = enc
            /\ EncodeAll(Records(Take(content, n))) = Take(content, n)

\* The last call was a Get on a valid reader that read short.
GetReadShort ==
    /\ is_valid_ /\ op.name = "Get"
    /\ op.reads # <<>> /\ ReadIsShort(op.reads[1])

\* C13 (read and decode failures): on a valid reader, a Get whose block read
\* is short returns not-found; a Get that returns found returns the value of
\* a record that stands whole in the block it read; and the failure is
\* confined to its query: the Get that follows a Get whose read was short
\* returns what it returns on a reader that has had no failure.
C13_ReadFailureConfined ==
    [][(is_valid_ /\ op'.name = "Get") =>
        /\ (op'.reads # <<>> /\ ReadIsShort(op'.reads[1])) => ~op'.ret
        /\ op'.ret => /\ op'.reads # <<>>
                      /\ WholeRecordIn(RangeOf(op'.reads[1]), op'.key, op'.value)
        /\ GetReadShort =>
              LET g == Get(file, TRUE, r_index_data_, FALSE, op'.key)
              IN  op'.ret = g.found /\ op'.value = g.value]_vars

\* The part of C13 about the query that meets the failure.
ReadFailureIsNotFound ==
    [][(is_valid_ /\ op'.name = "Get") =>
        /\ (op'.reads # <<>> /\ ReadIsShort(op'.reads[1])) => ~op'.ret
        /\ op'.ret => /\ op'.reads # <<>>
                      /\ WholeRecordIn(RangeOf(op'.reads[1]), op'.key, op'.value)]_vars

\* On a valid reader of a damaged table, a Get read short.
ReadFailureIsNotFound_Witness ==
    /\ GetReadShort /\ damaged = 1 /\ DOMAIN r_index_data_ # {}

\* On a valid reader of a damaged table, a Get read its block in full, met
\* a record that does not decode, and returned not-found.
ReadFailureIsNotFound_WitnessMalformed ==
    /\ is_valid_ /\ op.name = "Get" /\ damaged = 1 /\ ~op.ret /\ ~ifs_.fail
    /\ op.reads # <<>> /\ ~ReadIsShort(op.reads[1])
    /\ EncodeAll(Records(RangeOf(op.reads[1]))) # RangeOf(op.reads[1])

\* C14 (idempotent reopen): two readers opened on the same finished file,
\* which nothing changed, have the same validity, and their Gets of the same
\* key return the same found flag and the same value.
C14_IdempotentReopen ==
    (r_alive /\ reader2.alive /\ finished_ /\ damaged = 0) =>
        /\ reader2.is_valid_ = is_valid_
        /\ (op.name = "Get" /\ reader2.got.asked /\ reader2.got.key = op.key) =>
              /\ reader2.got.ret = op.ret
              /\ reader2.got.value = op.value

\* Both readers of a table of two blocks were asked for the same key and
\* found it.
C14_Witness ==
    /\ r_alive /\ reader2.alive /\ finished_ /\ damaged = 0
    /\ is_valid_ /\ reader2.is_valid_ /\ Len(flushed) >= 2
    /\ op.name = "Get" /\ op.ret
    /\ reader2.got.asked /\ reader2.got.key = op.key /\ reader2.got.ret

\* Both readers of a file whose footer was not written in full are invalid.
C14_WitnessInvalid ==
    /\ r_alive /\ reader2.alive /\ finished_ /\ ofs_.fail
    /\ ~is_valid_ /\ ~reader2.is_valid_
    /\ op.name = "Get" /\ reader2.got.asked /\ reader2.got.key = op.key

\* The data blocks hold the accepted records, whole and in order, and the
\* file begins with them.
RecordsInBlocks ==
    LET all == ConcatData(flushed, Len(flushed))
    IN  /\ all = EncodeAll(accepted)
        /\ IsPrefix(all, file)
        /\ \A i \in 1..Len(flushed) :
              /\ flushed[i].data # <<>>
              /\ EncodeAll(Records(flushed[i].data)) = flushed[i].data

\* C15 (records preserved): after a Finish that returned true, the data
\* blocks of the file, concatenated in file order, are the encodings
\* [key_len][key][value_len][value] of exactly the records whose Add returned
\* true, in the order of the Adds, and every record lies whole in one block.
C15_RecordsPreserved == finished_ => RecordsInBlocks

\* The records of C15 when every write of the builder reached the file.
RecordsPreservedWithoutWriteFault == (finished_ /\ ~ofs_.fail) => RecordsInBlocks

\* Three records in two blocks were written and the table finished.
RecordsPreservedWithoutWriteFault_Witness ==
    /\ finished_ /\ ~ofs_.fail /\ Len(accepted) = 3 /\ Len(flushed) = 2

\* A block of two or more records is at most the threshold long; a block
\* longer than the threshold is one record that is itself longer.
BlockBound(data) ==
    LET recs == Records(data)
    IN  /\ Len(recs) >= 2 => Len(data) <= DATA_BLOCK_SIZE_THRESHOLD
        /\ Len(data) > DATA_BLOCK_SIZE_THRESHOLD =>
              /\ Len(recs) = 1
              /\ getEntrySize(recs[1][1], recs[1][2]) > DATA_BLOCK_SIZE_THRESHOLD

\* This step is an Add that returned true.
AddAccepted == Len(accepted') = Len(accepted) + 1

\* The encoded size of the record the Add of this step accepted.
AddedSize ==
    getEntrySize(accepted'[Len(accepted')][1], accepted'[Len(accepted')][2])

\* The pending block with the record the Add of this step accepted appended.
AddedTo(buffer) ==
    writeKV(buffer, accepted'[Len(accepted')][1], accepted'[Len(accepted')][2])

\* C16 (block size bound): every data block written, and the pending block,
\* is at most 128 bytes long unless it is a single record longer than that;
\* and a record that brings the pending block to exactly 128 bytes is appended
\* to it without a flush.
C16_BlockSizeBound ==
    [][/\ \A i \in 1..Len(flushed') : BlockBound(flushed'[i].data)
       /\ BlockBound(cur_data_block_')
       /\ (AddAccepted /\ cur_data_block_ # <<>>
             /\ Len(cur_data_block_) + AddedSize = DATA_BLOCK_SIZE_THRESHOLD) =>
                /\ flushed' = flushed
                /\ cur_data_block_' = AddedTo(cur_data_block_)]_vars

\* A table was finished that holds a block of two records and exactly 128
\* bytes, and a block of one record longer than 128 bytes.
C16_Witness ==
    /\ finished_ /\ ~ofs_.fail
    /\ \E i \in 1..Len(flushed) :
          /\ flushed[i].size_ = DATA_BLOCK_SIZE_THRESHOLD
          /\ Len(Records(flushed[i].data)) = 2
    /\ \E i \in 1..Len(flushed) :
          /\ flushed[i].size_ > DATA_BLOCK_SIZE_THRESHOLD
          /\ Len(Records(flushed[i].data)) = 1

\* The encoded size of the first record of a block.
FirstRecordSize(data) ==
    LET kv == readKV(data) IN Len(data) - Len(kv.rest)

\* C17 (greedy splitting): an Add that returns true flushes the pending block
\* exactly when that block is not empty and its size plus the encoded size of
\* the new record exceeds 128; after the flush the new record alone opens the
\* next block, tagged with the stream offset taken after the flush; and for
\* every two consecutive blocks, the size of the earlier plus the size of the
\* first record of the later exceeds 128.
C17_GreedySplit ==
    [][/\ AddAccepted =>
            LET flush == /\ cur_data_block_ # <<>>
                         /\ Len(cur_data_block_) + AddedSize
                               > DATA_BLOCK_SIZE_THRESHOLD
            IN  /\ flush <=> Len(flushed') = Len(flushed) + 1
                /\ ~flush =>
                      /\ flushed' = flushed
                      /\ cur_data_block_' = AddedTo(cur_data_block_)
                /\ flush =>
                      /\ flushed'[Len(flushed')].data = cur_data_block_
                      /\ cur_data_block_' = AddedTo(<<>>)
                      /\ cur_data_block_offset_'
                            = IF ofs_'.fail THEN NegOff ELSE Len(file')
                      /\ ~ofs_'.fail => file' = file \o cur_data_block_
       /\ \A i \in 1..Len(flushed') - 1 :
             flushed'[i].size_ + FirstRecordSize(flushed'[i + 1].data)
                > DATA_BLOCK_SIZE_THRESHOLD]_vars

\* An Add flushed a pending block to the file and opened the next block, the
\* second of the file, with its record.
C17_Witness ==
    /\ op.name = "Add" /\ op.ret /\ op.writes = 1 /\ ~ofs_.fail
    /\ Len(flushed) = 2 /\ Len(Records(cur_data_block_)) = 1
    /\ cur_data_block_offset_ = Len(file)

\* C18 (index round trip): the key -> BlockHandle mapping that a reader
\* builds when it opens a file that a Finish which returned true produced
\* is the builder's index at that Finish: the same keys, and the same offset
\* and size under each key.
C18_IndexRoundTrip ==
    (r_alive /\ finished_ /\ damaged = 0) => r_index_data_ = index_data_

\* The round trip of C18 when every write of the builder reached the file.
IndexRoundTripWithoutWriteFault ==
    (r_alive /\ finished_ /\ ~ofs_.fail /\ damaged = 0) =>
        /\ is_valid_
        /\ r_index_data_ = index_data_

\* A reader loaded the three index entries of a finished table.
IndexRoundTripWithoutWriteFault_Witness ==
    /\ r_alive /\ finished_ /\ ~ofs_.fail /\ damaged = 0
    /\ Len(SortedKeys(DOMAIN r_index_data_)) = 3

\* C19 (two-level lookup I/O): on a valid reader, Get of a key greater than
\* every index key reads nothing from the file; every other Get reads exactly
\* one block, that of the first index entry whose key is not less than the
\* key asked for.
C19_TwoLevelLookup ==
    (r_alive /\ is_valid_ /\ op.name = "Get") =>
        IF \A k \in DOMAIN r_index_data_ : StrLess(k, op.key)
        THEN op.reads = <<>>
        ELSE \E k \in DOMAIN r_index_data_ :
                /\ ~StrLess(k, op.key)
                /\ \A j \in DOMAIN r_index_data_ :
                      StrLess(j, k) => StrLess(j, op.key)
                /\ op.reads = <<r_index_data_[k]>>

\* On a valid reader of a table of two blocks, Get of a key greater than
\* every index key read nothing.
C19_Witness ==
    /\ r_alive /\ is_valid_ /\ finished_ /\ op.name = "Get"
    /\ Len(flushed) >= 2 /\ Len(SortedKeys(DOMAIN r_index_data_)) >= 2
    /\ \A k \in DOMAIN r_index_data_ : StrLess(k, op.key)
    /\ op.reads = <<>> /\ ~op.ret

\* On a valid reader of a table of three blocks, Get of the last key of the
\* second block read that block and no other.
C19_WitnessOneBlock ==
    /\ r_alive /\ is_valid_ /\ finished_ /\ op.name = "Get" /\ Ascending
    /\ Len(flushed) = 3 /\ op.key = flushed[2].key
    /\ op.reads = <<BlockHandle(flushed[2].offset_, flushed[2].size_)>>
    /\ op.ret

\* The bytes, key, value and trailing bytes of the codec's record.
CodecRecord == writeKV(<<>>, codec.key, codec.value)

\* C20 (record codec round trip): readKV applied to the encoding of (key,
\* value) followed by trailing bytes succeeds, yields key, value and the
\* trailing bytes as the remaining view, and consumes getEntrySize(key, value)
\* = 8 + |key| + |value| bytes; applied to a view that ends before the end of
\* the record (inside or right before a length field, the key or the value)
\* it fails.
C20_RecordRoundTrip ==
    /\ codec.stage = "decoded" =>
          /\ codec.input = CodecRecord \o codec.rest
          /\ codec.got.ok
          /\ codec.got.key = codec.key
          /\ codec.got.value = codec.value
          /\ codec.got.rest = codec.rest
          /\ Len(codec.input) - Len(codec.got.rest)
                = getEntrySize(codec.key, codec.value)
          /\ getEntrySize(codec.key, codec.value)
                = 8 + Len(codec.key) + Len(codec.value)
          /\ Len(CodecRecord) = getEntrySize(codec.key, codec.value)
    /\ codec.stage = "decoded cut" =>
          /\ Len(codec.input) < getEntrySize(codec.key, codec.value)
          /\ codec.input = Take(CodecRecord, Len(codec.input))
          /\ ~codec.got.ok

\* A record with a key and a value was decoded in front of a second record.
C20_Witness ==
    /\ codec.stage = "decoded" /\ codec.got.ok
    /\ codec.key # <<>> /\ Len(codec.rest) > SizeofU32

\* readKV was applied to a view that ends inside the value of its record.
C20_WitnessCut ==
    /\ codec.stage = "decoded cut" /\ ~codec.got.ok
    /\ Len(codec.input) > 2 * SizeofU32 + Len(codec.key)

----------------------------------------------------------------------------
(* The empty table *)

\* The table was finished and no Add returned true before.
EmptyTableFinished == finished_ /\ accepted = <<>>

\* The file of an empty table: no data block, an index block of length 0 at
\* offset 0, and the footer that names it.
EmptyTableFile ==
    Take(Footer_EncodeTo(BlockHandle(0, 0), SSTABLE_MAGIC_NUMBER), FOOTER_SIZE)

\* What Finish leaves of an empty table, and what a reader makes of it.  The
\* Finish that wrote the table is the one that made writes; a later Finish
\* is rejected by the state check.
EmptyTableHolds ==
    /\ (op.name = "Finish" /\ op.writes > 0) => op.ret
    /\ flushed = <<>>
    /\ index_data_ = EmptyMap
    /\ Len(file) = FOOTER_SIZE
    /\ file = EmptyTableFile
    /\ r_alive =>
          /\ is_valid_
          /\ r_index_data_ = EmptyMap
          /\ \A key \in Keys :
                ~Get(file, is_valid_, r_index_data_, ifs_.fail, key).found
          /\ op.name = "Get" => (~op.ret /\ op.reads = <<>>)

\* C21 (empty table): Finish on an open builder to which no record was added
\* returns true, flushes no data block and adds no index entry, and the file
\* is exactly 20 bytes, an index block of length 0 at offset 0 and the
\* footer; a reader opened on that file is valid, has an empty index and
\* returns not-found for every key.
C21_EmptyTable == EmptyTableFinished => EmptyTableHolds

\* The empty table of C21 when the write of the footer reached the file.
EmptyTableWithoutWriteFault ==
    (EmptyTableFinished /\ ~ofs_.fail) => EmptyTableHolds

\* A reader of an empty table was asked for a key.
EmptyTableWithoutWriteFault_Witness ==
    /\ EmptyTableFinished /\ ~ofs_.fail
    /\ r_alive /\ is_valid_ /\ op.name = "Get" /\ op.key # <<>>

----------------------------------------------------------------------------
(* The pending block of the builder *)

\* The pending block is empty exactly when no Add has returned true.
PendingIffAccepted(buffer, adds) == (buffer = <<>>) <=> (adds = <<>>)

\* This step is the Finish that got past its state check.
FinishActed == ~finished_ /\ finished_'

\* This step handed a data block to ofs_.write.
Flushed == Len(flushed') = Len(flushed) + 1

\* C22 (builder invariant): in every state of an unfinished builder the
\* pending block is empty if and only if no Add has returned true; an Add
\* that flushes appends its record to the emptied block in the same call, so
\* every Add after the first accepted one is entered with a non-empty block;
\* and a Finish that gets past its state check after at least one accepted
\* record flushes the pending block, which is not empty.
C22_PendingBlock ==
    [][/\ ~finished_ => PendingIffAccepted(cur_data_block_, accepted)
       /\ ~finished_' => PendingIffAccepted(cur_data_block_', accepted')
       /\ (op'.name = "Add" /\ ~finished_ /\ accepted # <<>>) =>
             cur_data_block_ # <<>>
       /\ AddAccepted =>
             /\ cur_data_block_' # <<>>
             /\ cur_data_block_'
                   = AddedTo(IF Flushed THEN <<>> ELSE cur_data_block_)
             /\ Flushed => flushed'[Len(flushed')].data = cur_data_block_
       /\ (FinishActed /\ accepted # <<>>) =>
             /\ cur_data_block_ # <<>>
             /\ Flushed
             /\ flushed'[Len(flushed')].data = cur_data_block_
             /\ cur_data_block_' = <<>>
       /\ (FinishActed /\ accepted = <<>>) => flushed' = flushed]_vars

\* An Add filled the pending block past the threshold, flushed it and left
\* its own record pending, and a later Finish flushed that record as the
\* last block.
C22_Witness ==
    /\ finished_ /\ op.name = "Finish" /\ op.ret /\ op.writes = 3
    /\ Len(accepted) = 3 /\ Len(flushed) = 2
    /\ Len(Records(flushed[2].data)) = 1

\* The write of a flush inside Add failed; the record of that Add is pending
\* in a builder that is not finished.
C22_WitnessWriteFault ==
    /\ ~finished_ /\ ofs_.fail /\ op.name = "Add" /\ op.ret /\ op.writes = 1
    /\ Len(flushed) = 1 /\ Len(Records(cur_data_block_)) = 1

----------------------------------------------------------------------------
(* Get against a reader that has made no call yet *)

\* What Get(key) returns as the first call on a reader newly opened on the
\* file.
FreshGet(key) ==
    LET l == LoadIndex(file)
    IN  Get(file, l.ok, l.index, l.s.fail, key)

\* The last call was a Get on a valid reader and returned what the first Get
\* of a newly opened reader returns for that key.
SameAsFreshGet ==
    /\ op.ret = FreshGet(op.key).found
    /\ op.value = FreshGet(op.key).value

\* C23 (history independence): on a valid reader, whatever Gets were made
\* before, also Gets whose block could not be read in full, Get(k) returns
\* what it returns as the first call on a newly opened reader of the file.
C23_HistoryIndependent ==
    (r_alive /\ is_valid_ /\ op.name = "Get") => SameAsFreshGet

\* The history independence of C23 as long as no read of the reader failed.
HistoryIndependentWithoutReadFailure ==
    (r_alive /\ is_valid_ /\ op.name = "Get" /\ ~ifs_.fail) => SameAsFreshGet

\* On a valid reader of a damaged table, a Get found its key.
HistoryIndependentWithoutReadFailure_Witness ==
    /\ r_alive /\ is_valid_ /\ op.name = "Get" /\ ~ifs_.fail
    /\ damaged = 1 /\ op.ret /\ Len(flushed) = 2

====
